---- MODULE Spec2Model ----
(***************************************************************************)
(* Model of inet::queueing::PacketFlowBase (the Flow Coordinator).         *)
(*                                                                         *)
(* The state is the one field the class keeps between calls                *)
(* (inProgressStreamId) and its four optional neighbour references.  Each  *)
(* public operation is one action.  What an operation did to its           *)
(* neighbours is recorded per call: toProvider / toConsumer / toProducer / *)
(* toCollector hold the calls made on each neighbour during the last       *)
(* operation, result tells whether it returned or threw cRuntimeError,     *)
(* packet is the operation's local `packet` (the argument of a push, the   *)
(* value the Provider handed back in a pull), returned is its return       *)
(* value, and prevStreamId is inProgressStreamId as it was on entry.       *)
(*                                                                         *)
(* processPacket() is the subclass hook and is taken as the identity;      *)
(* signals, display strings and animation are not modelled.  The pull      *)
(* operations dereference the Provider unconditionally, so they are only   *)
(* enabled when a Provider is bound.                                       *)
(***************************************************************************)
EXTENDS Integers, Sequences, FiniteSets, TLC

MaxTreeId == 2
MaxLength == 2
MaxRate == 1

TreeIds == 1..MaxTreeId
Lengths == 1..MaxLength
Positions == 0..MaxLength
Rates == 1..MaxRate

\* The value of inProgressStreamId when no streaming session is open.
NoStream == -1

nullptr == [treeId |-> 0, totalLength |-> 0]

Packets == [treeId : TreeIds, totalLength : Lengths]

VARIABLES inProgressStreamId, producer, consumer, provider, collector,
          op, prevStreamId, packet, result, returned,
          toProvider, toConsumer, toProducer, toCollector

\* Capability queries: can is the boolean the last query returned,
\* neighbourCan the boolean its neighbour answers when asked, and
\* neighbourPacket the packet the Provider answers to canPullPacket.
VARIABLES can, neighbourCan, neighbourPacket

\* PreemptingServer: its fields (datarate as serverDatarate, streamedPacket,
\* timer as the delay left until the ClockEvent is delivered), the answers
\* its neighbours give to canPullSomePacket / canPushSomePacket, the owner
\* of every packet object created so far, the kinds of access the server
\* made to packets that were not its own (misuse), the record of the last
\* event handler, and the handler suspended inside a call to a neighbour.
\* pullOpen / pushOpen tell whether the Provider / the Consumer has seen a
\* start from the server that no end has followed yet, and unpaired holds
\* the calls the server made out of that order.
VARIABLES serverDatarate, streamedPacket, timer,
          canPullSomePacket, canPushSomePacket, owner, misuse,
          pullOpen, pushOpen, unpaired,
          event, streamedBefore, timerBefore,
          pulls, pushes, deleted, outcome, frame

bindings == <<producer, consumer, provider, collector>>

queryVars == <<can, neighbourCan, neighbourPacket>>

flowVars == <<inProgressStreamId, producer, consumer, provider, collector,
              op, prevStreamId, packet, result, returned,
              toProvider, toConsumer, toProducer, toCollector, queryVars>>

serverVars == <<serverDatarate, streamedPacket, timer,
                canPullSomePacket, canPushSomePacket, owner, misuse,
                pullOpen, pushOpen, unpaired,
                event, streamedBefore, timerBefore,
                pulls, pushes, deleted, outcome, frame>>

vars == <<flowVars, serverVars>>

----------------------------------------------------------------------------
(* Helpers of PacketFlowBase *)

\* TRUE when the check throws.
checkPacketStreaming_TreeIdIgnored(id, p) ==
    id # NoStream /\ p = nullptr

checkPacketStreaming(id, p) ==
    id # NoStream /\ (p = nullptr \/ p.treeId # id)

startPacketStreaming(p) == p.treeId

endPacketStreaming_Forgotten(id) == id

endPacketStreaming(id) == NoStream

isStreamingPacket(id) == id # NoStream

isPacketEnd_AtLeast(p, position, extraProcessableLength) ==
    p.totalLength <= position + extraProcessableLength

isPacketEnd(p, position, extraProcessableLength) ==
    p.totalLength = position + extraProcessableLength

\* A notification forwarded to the output gate / Consumer.
Forward(kind, p, datarate, position, extraProcessableLength) ==
    [kind |-> kind, packet |-> p, datarate |-> datarate,
     position |-> position, extraProcessableLength |-> extraProcessableLength]

\* A call made on the Provider.
Pull(kind, datarate, position, extraProcessableLength) ==
    [kind |-> kind, datarate |-> datarate,
     position |-> position, extraProcessableLength |-> extraProcessableLength]

\* No capability query has been the last call.
NoQuery ==
    /\ can = FALSE
    /\ neighbourCan = FALSE
    /\ neighbourPacket = nullptr

\* Entry of a public operation.
Enter_Method(name, datarate, position, extraProcessableLength) ==
    /\ op' = [name |-> name, datarate |-> datarate,
              position |-> position, extraProcessableLength |-> extraProcessableLength]
    /\ prevStreamId' = inProgressStreamId
    /\ can' = FALSE
    /\ neighbourCan' = FALSE
    /\ neighbourPacket' = nullptr
    /\ UNCHANGED bindings
    /\ UNCHANGED serverVars

\* The operation throws: the session field keeps its value, nothing is
\* returned, and the neighbours have seen what was done before the throw.
cRuntimeError(pulled, forwarded) ==
    /\ result' = "error"
    /\ returned' = nullptr
    /\ inProgressStreamId' = inProgressStreamId
    /\ toProvider' = pulled
    /\ toConsumer' = forwarded
    /\ toProducer' = <<>>
    /\ toCollector' = <<>>

\* The operation returns.
Return(id, value, pulled, forwarded, produced, collected) ==
    /\ result' = "ok"
    /\ returned' = value
    /\ inProgressStreamId' = id
    /\ toProvider' = pulled
    /\ toConsumer' = forwarded
    /\ toProducer' = produced
    /\ toCollector' = collected

----------------------------------------------------------------------------
(* PreemptingServer: values *)

MaxServerRate == 2
MaxTicks == 2
MaxObjects == 6

ServerRates == 1..MaxServerRate
ObjectIds == 1..MaxObjects

\* Lengths the Provider hands out to a server of the given rate; multiples of
\* the rate, so that totalLength / datarate is a whole number of ticks.
ServerLengths(rate) == {rate * k : k \in 1..MaxTicks}

\* The value of timer while the ClockEvent is not scheduled.
NotScheduled == -1

\* A packet object: id is its identity, 0 for the null pointer.
NoPacket == [id |-> 0, totalLength |-> 0]

\* No event handler is suspended inside a call to a neighbour.
NoFrame == [fn |-> "none", at |-> "none", packet |-> NoPacket, via |-> "none"]

ServerParked ==
    /\ serverDatarate = 1
    /\ streamedPacket = NoPacket
    /\ timer = NotScheduled
    /\ canPullSomePacket = FALSE
    /\ canPushSomePacket = FALSE
    /\ owner = [i \in ObjectIds |-> "free"]
    /\ misuse = {}
    /\ pullOpen = FALSE
    /\ pushOpen = FALSE
    /\ unpaired = {}
    /\ event = "initialize"
    /\ streamedBefore = NoPacket
    /\ timerBefore = NotScheduled
    /\ pulls = <<>>
    /\ pushes = <<>>
    /\ deleted = <<>>
    /\ outcome = "none"
    /\ frame = NoFrame

FlowParked ==
    /\ inProgressStreamId = NoStream
    /\ producer = FALSE
    /\ consumer = FALSE
    /\ provider = FALSE
    /\ collector = FALSE
    /\ op = [name |-> "initialize", datarate |-> 0, position |-> 0,
             extraProcessableLength |-> 0]
    /\ prevStreamId = NoStream
    /\ packet = nullptr
    /\ result = "none"
    /\ returned = nullptr
    /\ toProvider = <<>>
    /\ toConsumer = <<>>
    /\ toProducer = <<>>
    /\ toCollector = <<>>
    /\ NoQuery

----------------------------------------------------------------------------
Init ==
    /\ inProgressStreamId = NoStream
    /\ producer \in BOOLEAN
    /\ consumer \in BOOLEAN
    /\ provider \in BOOLEAN
    /\ collector \in BOOLEAN
    /\ op = [name |-> "initialize", datarate |-> 0, position |-> 0,
             extraProcessableLength |-> 0]
    /\ prevStreamId = NoStream
    /\ packet = nullptr
    /\ result = "none"
    /\ returned = nullptr
    /\ toProvider = <<>>
    /\ toConsumer = <<>>
    /\ toProducer = <<>>
    /\ toCollector = <<>>
    /\ NoQuery
    /\ ServerParked

----------------------------------------------------------------------------
(* Push side *)

pushPacket_CheckWithPacket(p) ==
    /\ Enter_Method("pushPacket", 0, 0, 0)
    /\ packet' = p
    /\ IF checkPacketStreaming(inProgressStreamId, p)
       THEN cRuntimeError(<<>>, <<>>)
       ELSE Return(inProgressStreamId, nullptr, <<>>,
                   <<Forward("packet", p, 0, 0, 0)>>, <<>>, <<>>)

pushPacket(p) ==
    /\ Enter_Method("pushPacket", 0, 0, 0)
    /\ packet' = p
    /\ IF checkPacketStreaming(inProgressStreamId, nullptr)
       THEN cRuntimeError(<<>>, <<>>)
       ELSE Return(inProgressStreamId, nullptr, <<>>,
                   <<Forward("packet", p, 0, 0, 0)>>, <<>>, <<>>)

pushPacketStart_CheckWithNull(p, datarate) ==
    /\ Enter_Method("pushPacketStart", datarate, 0, 0)
    /\ packet' = p
    /\ IF checkPacketStreaming(inProgressStreamId, nullptr)
       THEN cRuntimeError(<<>>, <<>>)
       ELSE Return(startPacketStreaming(p), nullptr, <<>>,
                   <<Forward("start", p, datarate, 0, 0)>>, <<>>, <<>>)

pushPacketStart(p, datarate) ==
    /\ Enter_Method("pushPacketStart", datarate, 0, 0)
    /\ packet' = p
    /\ IF checkPacketStreaming(inProgressStreamId, p)
       THEN cRuntimeError(<<>>, <<>>)
       ELSE Return(startPacketStreaming(p), nullptr, <<>>,
                   <<Forward("start", p, datarate, 0, 0)>>, <<>>, <<>>)

pushPacketEnd_NothingForwarded(p) ==
    /\ Enter_Method("pushPacketEnd", 0, 0, 0)
    /\ packet' = p
    /\ IF isStreamingPacket(inProgressStreamId)
          /\ checkPacketStreaming(inProgressStreamId, p)
       THEN cRuntimeError(<<>>, <<>>)
       ELSE LET started == IF ~isStreamingPacket(inProgressStreamId)
                           THEN startPacketStreaming(p)
                           ELSE inProgressStreamId
            IN  Return(endPacketStreaming(started), nullptr, <<>>,
                       <<>>, <<>>, <<>>)

pushPacketEnd(p) ==
    /\ Enter_Method("pushPacketEnd", 0, 0, 0)
    /\ packet' = p
    /\ IF isStreamingPacket(inProgressStreamId)
          /\ checkPacketStreaming(inProgressStreamId, p)
       THEN cRuntimeError(<<>>, <<>>)
       ELSE LET started == IF ~isStreamingPacket(inProgressStreamId)
                           THEN startPacketStreaming(p)
                           ELSE inProgressStreamId
            IN  Return(endPacketStreaming(started), nullptr, <<>>,
                       <<Forward("end", p, 0, 0, 0)>>, <<>>, <<>>)

pushPacketProgress_Unchecked(p, datarate, position, extraProcessableLength) ==
    /\ Enter_Method("pushPacketProgress", datarate, position, extraProcessableLength)
    /\ packet' = p
    /\ LET started == IF ~isStreamingPacket(inProgressStreamId)
                      THEN startPacketStreaming(p)
                      ELSE inProgressStreamId
       IN  IF isPacketEnd(p, position, extraProcessableLength)
           THEN Return(endPacketStreaming(started), nullptr, <<>>,
                       <<Forward("end", p, 0, 0, 0)>>, <<>>, <<>>)
           ELSE Return(started, nullptr, <<>>,
                       <<Forward("progress", p, datarate, position,
                                 extraProcessableLength)>>, <<>>, <<>>)

pushPacketProgress(p, datarate, position, extraProcessableLength) ==
    /\ Enter_Method("pushPacketProgress", datarate, position, extraProcessableLength)
    /\ packet' = p
    /\ IF isStreamingPacket(inProgressStreamId)
          /\ checkPacketStreaming(inProgressStreamId, p)
       THEN cRuntimeError(<<>>, <<>>)
       ELSE LET started == IF ~isStreamingPacket(inProgressStreamId)
                           THEN startPacketStreaming(p)
                           ELSE inProgressStreamId
            IN  IF isPacketEnd(p, position, extraProcessableLength)
                THEN Return(endPacketStreaming(started), nullptr, <<>>,
                            <<Forward("end", p, 0, 0, 0)>>, <<>>, <<>>)
                ELSE Return(started, nullptr, <<>>,
                            <<Forward("progress", p, datarate, position,
                                      extraProcessableLength)>>, <<>>, <<>>)

handleCanPushPacketChanged ==
    /\ Enter_Method("handleCanPushPacketChanged", 0, 0, 0)
    /\ packet' = nullptr
    /\ Return(inProgressStreamId, nullptr, <<>>, <<>>,
              IF producer THEN <<"handleCanPushPacketChanged">> ELSE <<>>,
              <<>>)

handlePushPacketProcessed(p, successful) ==
    /\ Enter_Method("handlePushPacketProcessed", 0, 0, 0)
    /\ packet' = p
    /\ Return(endPacketStreaming(inProgressStreamId), nullptr, <<>>, <<>>,
              IF producer THEN <<<<"handlePushPacketProcessed", p, successful>>>>
                          ELSE <<>>,
              <<>>)

----------------------------------------------------------------------------
(* Pull side; q is the packet the Provider hands back *)

pullPacket_PullFirst(q) ==
    /\ provider
    /\ Enter_Method("pullPacket", 0, 0, 0)
    /\ packet' = q
    /\ IF checkPacketStreaming(inProgressStreamId, nullptr)
       THEN cRuntimeError(<<Pull("pullPacket", 0, 0, 0)>>, <<>>)
       ELSE Return(inProgressStreamId, q,
                   <<Pull("pullPacket", 0, 0, 0)>>, <<>>, <<>>, <<>>)

pullPacket(q) ==
    /\ provider
    /\ Enter_Method("pullPacket", 0, 0, 0)
    /\ IF checkPacketStreaming(inProgressStreamId, nullptr)
       THEN /\ packet' = nullptr
            /\ cRuntimeError(<<>>, <<>>)
       ELSE /\ packet' = q
            /\ Return(inProgressStreamId, q,
                      <<Pull("pullPacket", 0, 0, 0)>>, <<>>, <<>>, <<>>)

pullPacketStart_PullFirst(q, datarate) ==
    /\ provider
    /\ Enter_Method("pullPacketStart", datarate, 0, 0)
    /\ packet' = q
    /\ IF checkPacketStreaming(inProgressStreamId, nullptr)
       THEN cRuntimeError(<<Pull("pullPacketStart", datarate, 0, 0)>>, <<>>)
       ELSE Return(q.treeId, q,
                   <<Pull("pullPacketStart", datarate, 0, 0)>>, <<>>, <<>>, <<>>)

pullPacketStart_Unchecked(q, datarate) ==
    /\ provider
    /\ Enter_Method("pullPacketStart", datarate, 0, 0)
    /\ packet' = q
    /\ Return(q.treeId, q,
              <<Pull("pullPacketStart", datarate, 0, 0)>>, <<>>, <<>>, <<>>)

pullPacketStart(q, datarate) ==
    /\ provider
    /\ Enter_Method("pullPacketStart", datarate, 0, 0)
    /\ IF checkPacketStreaming(inProgressStreamId, nullptr)
       THEN /\ packet' = nullptr
            /\ cRuntimeError(<<>>, <<>>)
       ELSE /\ packet' = q
            /\ Return(q.treeId, q,
                      <<Pull("pullPacketStart", datarate, 0, 0)>>, <<>>, <<>>, <<>>)

pullPacketEnd(q) ==
    /\ provider
    /\ Enter_Method("pullPacketEnd", 0, 0, 0)
    /\ packet' = q
    /\ IF checkPacketStreaming(inProgressStreamId, q)
       THEN cRuntimeError(<<Pull("pullPacketEnd", 0, 0, 0)>>, <<>>)
       ELSE Return(endPacketStreaming(q.treeId), q,
                   <<Pull("pullPacketEnd", 0, 0, 0)>>, <<>>, <<>>, <<>>)

pullPacketProgress_SessionNotSet(q, datarate, position, extraProcessableLength) ==
    /\ provider
    /\ Enter_Method("pullPacketProgress", datarate, position, extraProcessableLength)
    /\ packet' = q
    /\ LET pulled == <<Pull("pullPacketProgress", datarate, position,
                            extraProcessableLength)>>
       IN  IF checkPacketStreaming(inProgressStreamId, q)
           THEN cRuntimeError(pulled, <<>>)
           ELSE IF isPacketEnd(q, position, extraProcessableLength)
                THEN Return(endPacketStreaming(inProgressStreamId), q, pulled,
                            <<>>, <<>>, <<>>)
                ELSE Return(inProgressStreamId, q, pulled, <<>>, <<>>, <<>>)

pullPacketProgress(q, datarate, position, extraProcessableLength) ==
    /\ provider
    /\ Enter_Method("pullPacketProgress", datarate, position, extraProcessableLength)
    /\ packet' = q
    /\ LET pulled == <<Pull("pullPacketProgress", datarate, position,
                            extraProcessableLength)>>
       IN  IF checkPacketStreaming(inProgressStreamId, q)
           THEN cRuntimeError(pulled, <<>>)
           ELSE IF isPacketEnd(q, position, extraProcessableLength)
                THEN Return(endPacketStreaming(q.treeId), q, pulled,
                            <<>>, <<>>, <<>>)
                ELSE Return(q.treeId, q, pulled, <<>>, <<>>, <<>>)

handleCanPullPacketChanged_ToProducer ==
    /\ Enter_Method("handleCanPullPacketChanged", 0, 0, 0)
    /\ packet' = nullptr
    /\ Return(inProgressStreamId, nullptr, <<>>, <<>>,
              IF producer THEN <<"handleCanPullPacketChanged">> ELSE <<>>,
              <<>>)

handleCanPullPacketChanged ==
    /\ Enter_Method("handleCanPullPacketChanged", 0, 0, 0)
    /\ packet' = nullptr
    /\ Return(inProgressStreamId, nullptr, <<>>, <<>>, <<>>,
              IF collector THEN <<"handleCanPullPacketChanged">> ELSE <<>>)

handlePullPacketProcessed(p, successful) ==
    /\ Enter_Method("handlePullPacketProcessed", 0, 0, 0)
    /\ packet' = p
    /\ Return(endPacketStreaming(inProgressStreamId), nullptr, <<>>, <<>>,
              <<>>,
              IF collector THEN <<<<"handlePullPacketProcessed", p, successful>>>>
                           ELSE <<>>)

----------------------------------------------------------------------------
Next ==
    \/ \E p \in Packets : pushPacket(p)
    \/ \E p \in Packets, r \in Rates : pushPacketStart(p, r)
    \/ \E p \in Packets : pushPacketEnd(p)
    \/ \E p \in Packets, r \in Rates, pos \in Positions, e \in Positions :
          pushPacketProgress(p, r, pos, e)
    \/ handleCanPushPacketChanged
    \/ \E p \in Packets, s \in BOOLEAN : handlePushPacketProcessed(p, s)
    \/ \E q \in Packets : pullPacket(q)
    \/ \E q \in Packets, r \in Rates : pullPacketStart(q, r)
    \/ \E q \in Packets : pullPacketEnd(q)
    \/ \E q \in Packets, r \in Rates, pos \in Positions, e \in Positions :
          pullPacketProgress(q, r, pos, e)
    \/ handleCanPullPacketChanged
    \/ \E p \in Packets, s \in BOOLEAN : handlePullPacketProcessed(p, s)

Spec == Init /\ [][Next]_vars

----------------------------------------------------------------------------
(* Capability queries of PacketFlowBase.  They are const member functions: *)
(* inProgressStreamId and the bindings cannot change.  says is what the    *)
(* neighbour answers if it is asked.                                       *)

Query(name, p) ==
    /\ op' = [name |-> name, datarate |-> 0, position |-> 0,
              extraProcessableLength |-> 0]
    /\ prevStreamId' = inProgressStreamId
    /\ packet' = p
    /\ result' = "ok"
    /\ toProducer' = <<>>
    /\ toCollector' = <<>>
    /\ UNCHANGED inProgressStreamId
    /\ UNCHANGED bindings
    /\ UNCHANGED serverVars

Flow_canPushSomePacket(says) ==
    /\ Query("canPushSomePacket", nullptr)
    /\ neighbourCan' = says
    /\ neighbourPacket' = nullptr
    /\ can' = (~consumer \/ says)
    /\ returned' = nullptr
    /\ toConsumer' = IF consumer
                     THEN <<Forward("canPushSomePacket", nullptr, 0, 0, 0)>>
                     ELSE <<>>
    /\ toProvider' = <<>>

Flow_canPushPacket(p, says) ==
    /\ Query("canPushPacket", p)
    /\ neighbourCan' = says
    /\ neighbourPacket' = nullptr
    /\ can' = (~consumer \/ says)
    /\ returned' = nullptr
    /\ toConsumer' = IF consumer
                     THEN <<Forward("canPushPacket", p, 0, 0, 0)>>
                     ELSE <<>>
    /\ toProvider' = <<>>

Flow_canPullSomePacket_DefaultTrue(says) ==
    /\ Query("canPullSomePacket", nullptr)
    /\ neighbourCan' = says
    /\ neighbourPacket' = nullptr
    /\ can' = (~provider \/ says)
    /\ returned' = nullptr
    /\ toProvider' = IF provider
                     THEN <<Pull("canPullSomePacket", 0, 0, 0)>>
                     ELSE <<>>
    /\ toConsumer' = <<>>

Flow_canPullSomePacket(says) ==
    /\ Query("canPullSomePacket", nullptr)
    /\ neighbourCan' = says
    /\ neighbourPacket' = nullptr
    /\ can' = (provider /\ says)
    /\ returned' = nullptr
    /\ toProvider' = IF provider
                     THEN <<Pull("canPullSomePacket", 0, 0, 0)>>
                     ELSE <<>>
    /\ toConsumer' = <<>>

\* q is the packet the Provider shows, nullptr when it has none.
Flow_canPullPacket(q) ==
    /\ Query("canPullPacket", nullptr)
    /\ neighbourCan' = FALSE
    /\ neighbourPacket' = q
    /\ can' = FALSE
    /\ returned' = IF provider THEN q ELSE nullptr
    /\ toProvider' = IF provider
                     THEN <<Pull("canPullPacket", 0, 0, 0)>>
                     ELSE <<>>
    /\ toConsumer' = <<>>

\* The queries, asked between the operations that open and close sessions.
NextQuery ==
    \/ \E says \in BOOLEAN : Flow_canPushSomePacket(says)
    \/ \E p \in Packets, says \in BOOLEAN : Flow_canPushPacket(p, says)
    \/ \E says \in BOOLEAN : Flow_canPullSomePacket(says)
    \/ \E q \in Packets \cup {nullptr} : Flow_canPullPacket(q)
    \/ \E p \in Packets, r \in Rates : pushPacketStart(p, r)
    \/ \E p \in Packets : pushPacketEnd(p)
    \/ \E q \in Packets, r \in Rates : pullPacketStart(q, r)
    \/ \E q \in Packets : pullPacketEnd(q)

SpecQuery == Init /\ [][NextQuery]_vars

----------------------------------------------------------------------------
(* The two ways of transferring one whole packet through an idle           *)
(* Coordinator: pushPacket(p) alone, or pushPacketStart(p) followed by     *)
(* pushPacketEnd(p) with no pushPacketProgress in between.                 *)

AtomicTransfer(p) ==
    /\ result = "none"
    /\ pushPacket(p)

StreamingTransferStart(p, datarate) ==
    /\ result = "none"
    /\ pushPacketStart(p, datarate)

StreamingTransferEnd ==
    /\ op.name = "pushPacketStart"
    /\ result = "ok"
    /\ pushPacketEnd(packet)

NextTransfer ==
    \/ \E p \in Packets : AtomicTransfer(p)
    \/ \E p \in Packets, r \in Rates : StreamingTransferStart(p, r)
    \/ StreamingTransferEnd

SpecTransfer == Init /\ [][NextTransfer]_vars

----------------------------------------------------------------------------
(* PreemptingServer.  The functions of the class are operators on a record *)
(* s of the state they read and write (streamedPacket, timer, owner,       *)
(* misuse), the calls made so far by the running handler (pulls, pushes,   *)
(* deleted), its outcome and the packet last returned by the Provider      *)
(* (local).  startStreaming and endStreaming are cut at their calls to the *)
(* neighbours; an event handler is one action that runs all its parts.     *)

Running ==
    [streamedPacket |-> streamedPacket, timer |-> timer, owner |-> owner,
     misuse |-> misuse, pullOpen |-> pullOpen, pushOpen |-> pushOpen,
     unpaired |-> unpaired, pulls |-> <<>>, pushes |-> <<>>, deleted |-> <<>>,
     outcome |-> "ok", local |-> NoPacket]

Commit(s) ==
    /\ streamedPacket' = s.streamedPacket
    /\ timer' = s.timer
    /\ owner' = s.owner
    /\ misuse' = s.misuse
    /\ pullOpen' = s.pullOpen
    /\ pushOpen' = s.pushOpen
    /\ unpaired' = s.unpaired
    /\ pulls' = s.pulls
    /\ pushes' = s.pushes
    /\ deleted' = s.deleted
    /\ outcome' = s.outcome

HasFree(n) == Cardinality({i \in ObjectIds : owner[i] = "free"}) >= n

\* The simulation runs: no error has ended it, and packet objects are left.
Alive == outcome \in {"none", "ok"} /\ HasFree(2)

Fresh(own) ==
    CHOOSE i \in ObjectIds :
        own[i] = "free" /\ \A j \in ObjectIds : j < i => own[j] # "free"

\* The server touches packet p: recorded when p is not null and not, or no
\* longer, the server's.
Touch(s, p, how) ==
    IF p # NoPacket /\ s.owner[p.id] # "server"
    THEN [s EXCEPT !.misuse = @ \cup {how}]
    ELSE s

\* A start or an end reaches a neighbour whose transfer is open or not: a
\* start opens it, an end closes it, and a start on an open transfer or an
\* end on a closed one is recorded.
Paired(open, call, start, done) ==
    [open |-> call = start,
     unpaired |-> IF (call = start /\ open) \/ (call # start /\ ~open)
                  THEN done \cup {call}
                  ELSE done]

\* The Provider returns a new packet object and the server takes it.
PulledFrom(s, call, rate, len) ==
    LET pkt == [id |-> Fresh(s.owner), totalLength |-> len]
        seen == Paired(s.pullOpen, call, "pullPacketStart", s.unpaired)
    IN  [s EXCEPT !.owner[pkt.id] = "server",
                  !.pullOpen = seen.open,
                  !.unpaired = seen.unpaired,
                  !.pulls = Append(@, [kind |-> call, datarate |-> rate,
                                       packet |-> pkt]),
                  !.local = pkt]

\* The packet is handed to the Consumer.
PushedTo(s, kind, pkt, rate) ==
    LET t == Touch(s, pkt, "forward")
        seen == Paired(s.pushOpen, kind, "pushPacketStart", s.unpaired)
    IN  IF pkt = NoPacket
        THEN [t EXCEPT !.outcome = "crash"]
        ELSE [t EXCEPT !.owner[pkt.id] = "downstream",
                       !.pushOpen = seen.open,
                       !.unpaired = seen.unpaired,
                       !.pushes = Append(@, [kind |-> kind, packet |-> pkt,
                                             datarate |-> rate])]

Delete(s, p) ==
    IF p = NoPacket
    THEN s
    ELSE LET t == Touch(s, p, "delete")
         IN  [t EXCEPT !.owner[p.id] = "deleted", !.deleted = Append(@, p)]

\* streamedPacket->dup()
Dup(s) ==
    LET t == Touch(s, s.streamedPacket, "dereference")
        copy == [id |-> Fresh(t.owner),
                 totalLength |-> t.streamedPacket.totalLength]
    IN  [t EXCEPT !.owner[copy.id] = "server", !.local = copy]

isStreaming == streamedPacket # NoPacket

canStartStreaming_Either == canPullSomePacket \/ canPushSomePacket

canStartStreaming == canPullSomePacket /\ canPushSomePacket

\* Scheduling an event that is already scheduled is a runtime error.
scheduleClockEventAfter(s, delay) ==
    IF s.timer # NotScheduled
    THEN [s EXCEPT !.outcome = "error"]
    ELSE [s EXCEPT !.timer = delay]

cancelClockEvent(s) == [s EXCEPT !.timer = NotScheduled]

\* startStreaming up to and including the push of the duplicate.
startStreaming_pushStart(s, len) ==
    LET s1 == PulledFrom(s, "pullPacketStart", serverDatarate, len)
        s2 == [s1 EXCEPT !.streamedPacket = s1.local]
        s3 == Dup(s2)
    IN  PushedTo(s3, "pushPacketStart", s3.local, serverDatarate)

\* startStreaming after the push has returned.
startStreaming_schedule(s) ==
    IF s.streamedPacket = NoPacket
    THEN [s EXCEPT !.outcome = "crash"]
    ELSE LET t == Touch(s, s.streamedPacket, "dereference")
         IN  scheduleClockEventAfter(t,
                 t.streamedPacket.totalLength \div serverDatarate)

startStreaming(s, len) ==
    startStreaming_schedule(startStreaming_pushStart(s, len))

\* endStreaming: the call of pullPacketEnd.
endStreaming_pullEnd(s, len) ==
    PulledFrom(s, "pullPacketEnd", 0, len)

endStreaming_pushEnd_HeldForwarded(s, pkt) ==
    LET s1 == Delete(s, pkt)
    IN  PushedTo(s1, "pushPacketEnd", s1.streamedPacket, 0)

\* endStreaming from the return of pullPacketEnd (pkt) to the push of the end.
endStreaming_pushEnd(s, pkt) ==
    LET s1 == Delete(s, s.streamedPacket)
        s2 == [s1 EXCEPT !.streamedPacket = pkt]
    IN  PushedTo(s2, "pushPacketEnd", s2.streamedPacket, 0)

\* endStreaming after the push has returned.
endStreaming_clear(s) == [s EXCEPT !.streamedPacket = NoPacket]

endStreaming(s, len) ==
    LET s1 == endStreaming_pullEnd(s, len)
    IN  endStreaming_clear(endStreaming_pushEnd(s1, s1.local))

\* The body of handlePushPacketProcessed when streaming.
finishStreamedPacket_Kept(s, len) ==
    LET s1 == Delete(s, s.streamedPacket)
        s2 == PulledFrom(s1, "pullPacketEnd", 0, len)
    IN  [s2 EXCEPT !.streamedPacket = s2.local]

finishStreamedPacket(s, len) ==
    LET s1 == Delete(s, s.streamedPacket)
        s2 == PulledFrom(s1, "pullPacketEnd", 0, len)
        s3 == [s2 EXCEPT !.streamedPacket = s2.local]
        s4 == Delete(s3, s3.streamedPacket)
    IN  [s4 EXCEPT !.streamedPacket = NoPacket]

\* Entry of an event handler of the server.
Handle(name) ==
    /\ Alive
    /\ event' = name
    /\ streamedBefore' = streamedPacket
    /\ timerBefore' = timer
    /\ UNCHANGED <<serverDatarate, canPullSomePacket, canPushSomePacket, frame>>
    /\ UNCHANGED flowVars

InitServer ==
    /\ serverDatarate \in ServerRates
    /\ streamedPacket = NoPacket
    /\ timer = NotScheduled
    /\ canPullSomePacket \in BOOLEAN
    /\ canPushSomePacket \in BOOLEAN
    /\ owner = [i \in ObjectIds |-> "free"]
    /\ misuse = {}
    /\ pullOpen = FALSE
    /\ pushOpen = FALSE
    /\ unpaired = {}
    /\ event = "initialize"
    /\ streamedBefore = NoPacket
    /\ timerBefore = NotScheduled
    /\ pulls = <<>>
    /\ pushes = <<>>
    /\ deleted = <<>>
    /\ outcome = "none"
    /\ frame = NoFrame
    /\ FlowParked

\* The ClockEvent is delivered.
handleMessage(len) ==
    /\ timer = 0
    /\ Handle("handleMessage")
    /\ Commit(endStreaming(cancelClockEvent(Running), len))

Server_handleCanPushPacketChanged_Preempts(len) ==
    /\ Handle("handleCanPushPacketChanged")
    /\ Commit(IF isStreaming
              THEN cancelClockEvent(endStreaming(Running, len))
              ELSE IF canStartStreaming
                   THEN startStreaming(Running, len)
                   ELSE Running)

Server_handleCanPushPacketChanged(len) ==
    /\ Handle("handleCanPushPacketChanged")
    /\ Commit(IF ~isStreaming /\ canStartStreaming
              THEN startStreaming(Running, len)
              ELSE Running)

Server_handleCanPullPacketChanged_TimerLeft(len) ==
    /\ Handle("handleCanPullPacketChanged")
    /\ Commit(IF isStreaming
              THEN endStreaming(Running, len)
              ELSE IF canStartStreaming
                   THEN startStreaming(Running, len)
                   ELSE Running)

Server_handleCanPullPacketChanged(len) ==
    /\ Handle("handleCanPullPacketChanged")
    /\ Commit(IF isStreaming
              THEN cancelClockEvent(endStreaming(Running, len))
              ELSE IF canStartStreaming
                   THEN startStreaming(Running, len)
                   ELSE Running)

Server_handlePushPacketProcessed(len) ==
    /\ Handle("handlePushPacketProcessed")
    /\ Commit(IF isStreaming
              THEN finishStreamedPacket(Running, len)
              ELSE Running)

\* One unit of time passes; the delay left on a scheduled timer shrinks.
Tick ==
    /\ timer > 0
    /\ Handle("tick")
    /\ Commit([Running EXCEPT !.timer = timer - 1])

\* The neighbours change what they answer to canPullSomePacket and
\* canPushSomePacket.
NeighboursChange ==
    /\ Alive
    /\ \E pull \in BOOLEAN, push \in BOOLEAN :
          /\ <<pull, push>> # <<canPullSomePacket, canPushSomePacket>>
          /\ canPullSomePacket' = pull
          /\ canPushSomePacket' = push
    /\ event' = "neighboursChange"
    /\ streamedBefore' = streamedPacket
    /\ timerBefore' = timer
    /\ Commit(Running)
    /\ UNCHANGED <<serverDatarate, frame>>
    /\ UNCHANGED flowVars

NextServer ==
    \/ \E len \in ServerLengths(serverDatarate) : handleMessage(len)
    \/ \E len \in ServerLengths(serverDatarate) :
          Server_handleCanPushPacketChanged(len)
    \/ \E len \in ServerLengths(serverDatarate) :
          Server_handleCanPullPacketChanged(len)
    \/ \E len \in ServerLengths(serverDatarate) :
          Server_handlePushPacketProcessed(len)
    \/ Tick
    \/ NeighboursChange

SpecServer == InitServer /\ [][NextServer]_vars

\* The same server when every scheduled timer event is eventually delivered:
\* time goes on while the timer is scheduled, and the ClockEvent is handled
\* once its delay has passed.  Nothing obliges the neighbours to notify.
SpecServerTimed ==
    /\ InitServer
    /\ [][NextServer]_vars
    /\ WF_vars(Tick)
    /\ WF_vars(\E len \in ServerLengths(serverDatarate) : handleMessage(len))

----------------------------------------------------------------------------
(* PreemptingServer with synchronous callbacks.  startStreaming and        *)
(* endStreaming stop at their calls to the neighbours (frame tells where); *)
(* while one is stopped, the neighbour may call an event handler of the    *)
(* server, which runs to its end before the stopped function goes on.      *)

Suspend(fn, at, pkt, via) ==
    frame' = [fn |-> fn, at |-> at, packet |-> pkt, via |-> via]

\* A stopped function goes on.
Segment ==
    /\ outcome \in {"none", "ok"}
    /\ UNCHANGED <<serverDatarate, canPullSomePacket, canPushSomePacket,
                   event, streamedBefore, timerBefore>>
    /\ UNCHANGED flowVars

\* A handler begins; frame is left to the function it calls.
Begin(name) ==
    /\ Alive
    /\ frame = NoFrame
    /\ event' = name
    /\ streamedBefore' = streamedPacket
    /\ timerBefore' = timer
    /\ UNCHANGED <<serverDatarate, canPullSomePacket, canPushSomePacket>>
    /\ UNCHANGED flowVars

\* startStreaming, called from a back-pressure handler, up to pushPacketStart.
Begin_startStreaming(via, len) ==
    /\ ~isStreaming
    /\ canStartStreaming
    /\ Begin(via)
    /\ Commit(startStreaming_pushStart(Running, len))
    /\ Suspend("startStreaming", "pushPacketStart", NoPacket, via)

\* pushPacketStart has returned.
Resume_startStreaming ==
    /\ frame.fn = "startStreaming"
    /\ Segment
    /\ Commit(startStreaming_schedule(Running))
    /\ frame' = NoFrame

\* endStreaming, called by the timer or by handleCanPullPacketChanged, up to
\* pullPacketEnd.
Begin_endStreaming(via, len) ==
    /\ IF via = "handleMessage" THEN timer = 0 ELSE isStreaming
    /\ Begin(via)
    /\ LET s == endStreaming_pullEnd(
                    IF via = "handleMessage" THEN cancelClockEvent(Running)
                                             ELSE Running, len)
       IN  Commit(s) /\ Suspend("endStreaming", "pullPacketEnd", s.local, via)

\* pullPacketEnd has returned; up to pushPacketEnd.
Continue_endStreaming ==
    /\ frame.fn = "endStreaming"
    /\ frame.at = "pullPacketEnd"
    /\ Segment
    /\ Commit(endStreaming_pushEnd(Running, frame.packet))
    /\ Suspend("endStreaming", "pushPacketEnd", frame.packet, frame.via)

\* pushPacketEnd has returned; endStreaming and its caller finish.
Resume_endStreaming ==
    /\ frame.fn = "endStreaming"
    /\ frame.at = "pushPacketEnd"
    /\ Segment
    /\ Commit(IF frame.via = "handleCanPullPacketChanged"
              THEN cancelClockEvent(endStreaming_clear(Running))
              ELSE endStreaming_clear(Running))
    /\ frame' = NoFrame

\* A neighbour calls back while a function of the server is stopped.
Callback_handlePushPacketProcessed(len) ==
    /\ frame # NoFrame
    /\ Server_handlePushPacketProcessed(len)

Callback_handleCanPushPacketChanged(len) ==
    /\ frame # NoFrame
    /\ Server_handleCanPushPacketChanged(len)

Callback_handleCanPullPacketChanged(len) ==
    /\ frame # NoFrame
    /\ Server_handleCanPullPacketChanged(len)

\* Events that arrive while no function is stopped.
Event_handlePushPacketProcessed(len) ==
    /\ frame = NoFrame
    /\ Server_handlePushPacketProcessed(len)

Event_Tick ==
    /\ frame = NoFrame
    /\ Tick

NextReentrant ==
    \/ \E len \in ServerLengths(serverDatarate),
          via \in {"handleCanPushPacketChanged", "handleCanPullPacketChanged"} :
          Begin_startStreaming(via, len)
    \/ Resume_startStreaming
    \/ \E len \in ServerLengths(serverDatarate),
          via \in {"handleMessage", "handleCanPullPacketChanged"} :
          Begin_endStreaming(via, len)
    \/ Continue_endStreaming
    \/ Resume_endStreaming
    \/ \E len \in ServerLengths(serverDatarate) :
          Callback_handlePushPacketProcessed(len)
    \/ \E len \in ServerLengths(serverDatarate) :
          Callback_handleCanPushPacketChanged(len)
    \/ \E len \in ServerLengths(serverDatarate) :
          Callback_handleCanPullPacketChanged(len)
    \/ \E len \in ServerLengths(serverDatarate) :
          Event_handlePushPacketProcessed(len)
    \/ Event_Tick
    \/ NeighboursChange

SpecReentrant == InitServer /\ [][NextReentrant]_vars

----------------------------------------------------------------------------
(* Properties of the Flow Coordinator.  Each is a predicate on the state   *)
(* left by the last operation: op names it, prevStreamId is the session on *)
(* entry, packet the packet it carried or obtained.                        *)

Idle == inProgressStreamId = NoStream

WasIdle == prevStreamId = NoStream

Accepted == result = "ok"

Failed == result = "error"

ReachesTotalLength ==
    op.position + op.extraProcessableLength = packet.totalLength

\* C1: while a session is open for treeId T, a pushPacketStart,
\* pushPacketProgress, pushPacketEnd, pullPacketProgress or pullPacketEnd
\* whose packet has another treeId fails fatally, forwards and returns
\* nothing, and leaves the session open for T.
C1_MismatchedTreeIdFails ==
    ( /\ op.name \in {"pushPacketStart", "pushPacketProgress", "pushPacketEnd",
                      "pullPacketProgress", "pullPacketEnd"}
      /\ ~WasIdle
      /\ packet.treeId # prevStreamId )
    => ( /\ Failed
         /\ inProgressStreamId = prevStreamId
         /\ toConsumer = <<>>
         /\ returned = nullptr )

C1_Witness ==
    /\ op.name = "pullPacketEnd"
    /\ prevStreamId \in TreeIds
    /\ packet \in Packets
    /\ packet.treeId # prevStreamId
    /\ Failed
    /\ inProgressStreamId = prevStreamId

\* C2 (as stated): pushPacketProgress is accepted only inside an open
\* session for the packet's treeId; when no session is open it fails
\* fatally and nothing is forwarded downstream.
C2_ProgressNeedsOpenSession ==
    op.name = "pushPacketProgress"
    => ( /\ Accepted => prevStreamId = packet.treeId
         /\ WasIdle => (Failed /\ toConsumer = <<>>) )

\* C2 (amended): pushPacketProgress fails exactly when a session for
\* another treeId is open, and then forwards nothing and leaves the session
\* as it was; when no session is open it opens the session for the packet's
\* treeId itself, and every accepted call forwards one notification for the
\* packet downstream.
C2_ProgressRejectedOnlyOnMismatch ==
    op.name = "pushPacketProgress"
    => ( /\ Failed <=> (~WasIdle /\ packet.treeId # prevStreamId)
         /\ Accepted <=> ~Failed
         /\ Failed => (toConsumer = <<>> /\ inProgressStreamId = prevStreamId)
         /\ Accepted => ( /\ Len(toConsumer) = 1
                          /\ toConsumer[1].packet = packet
                          /\ inProgressStreamId \in {NoStream, packet.treeId} ) )

C2_Witness ==
    /\ op.name = "pushPacketProgress"
    /\ WasIdle
    /\ Accepted
    /\ inProgressStreamId = packet.treeId
    /\ Len(toConsumer) = 1
    /\ toConsumer[1].kind = "progress"

\* C3 (as stated): pullPacketProgress and pullPacketEnd called while no
\* session is open fail fatally and return no packet.
C3_PullNeedsOpenSession ==
    (op.name \in {"pullPacketProgress", "pullPacketEnd"} /\ WasIdle)
    => (Failed /\ returned = nullptr)

\* C3 (amended): pullPacketProgress and pullPacketEnd fail exactly when a
\* session is open for a treeId other than that of the packet the Provider
\* hands back.  Called while idle they are accepted and return the packet:
\* pullPacketEnd leaves the Coordinator idle, pullPacketProgress leaves a
\* session open for the packet's treeId unless position + extraLength
\* equals its totalLength.
C3_PullRejectedOnlyOnMismatch ==
    op.name \in {"pullPacketProgress", "pullPacketEnd"}
    => ( /\ Failed <=> (~WasIdle /\ packet.treeId # prevStreamId)
         /\ Accepted <=> ~Failed
         /\ Failed => returned = nullptr
         /\ Accepted =>
              ( /\ returned = packet
                /\ inProgressStreamId =
                     IF op.name = "pullPacketEnd" \/ ReachesTotalLength
                     THEN NoStream ELSE packet.treeId ) )

C3_Witness ==
    /\ op.name = "pullPacketProgress"
    /\ WasIdle
    /\ Accepted
    /\ returned \in Packets
    /\ inProgressStreamId = returned.treeId

\* C4 (as stated): an operation that fails the streaming-consistency check
\* has made no call on the Provider and forwarded nothing to the Consumer.
C4_FailureBeforeAnyNeighbourCall ==
    Failed => (toProvider = <<>> /\ toConsumer = <<>>)

\* C4 (amended): a failing pushPacket, pushPacketStart, pushPacketProgress,
\* pushPacketEnd, pullPacket or pullPacketStart has called no neighbour.
\* pullPacketProgress and pullPacketEnd check the packet the Provider
\* returns, so when they fail they have made exactly that one call on the
\* Provider.  No failing operation forwards anything downstream or notifies
\* the Producer or the Collector.
C4_FailureNeighbourCalls ==
    Failed
    => ( /\ toConsumer = <<>>
         /\ toProducer = <<>>
         /\ toCollector = <<>>
         /\ toProvider =
              IF op.name \in {"pullPacketProgress", "pullPacketEnd"}
              THEN <<Pull(op.name, op.datarate, op.position,
                          op.extraProcessableLength)>>
              ELSE <<>> )

C4_Witness ==
    /\ Failed
    /\ op.name = "pullPacketProgress"
    /\ Len(toProvider) = 1
    /\ toProvider[1].kind = "pullPacketProgress"
    /\ inProgressStreamId = prevStreamId

\* C5: an accepted pushPacketProgress or pullPacketProgress leaves the
\* Coordinator idle if and only if position + extraLength equals the
\* packet's totalLength, and otherwise leaves the session open for the
\* packet's treeId; the push forwards exactly one notification downstream,
\* an End in the first case and a Progress in the second.
C5_ImplicitEnd ==
    (op.name \in {"pushPacketProgress", "pullPacketProgress"} /\ Accepted)
    => ( /\ Idle <=> ReachesTotalLength
         /\ ~ReachesTotalLength => inProgressStreamId = packet.treeId
         /\ op.name = "pushPacketProgress"
              => ( /\ Len(toConsumer) = 1
                   /\ toConsumer[1].packet = packet
                   /\ toConsumer[1].kind =
                        IF ReachesTotalLength THEN "end" ELSE "progress" ) )

C5_Witness ==
    /\ op.name = "pushPacketProgress"
    /\ Accepted
    /\ prevStreamId = packet.treeId
    /\ op.extraProcessableLength > 0
    /\ ReachesTotalLength
    /\ Idle
    /\ toConsumer[1].kind = "end"

\* C6: pushPacketEnd is accepted exactly when no session is open or the open
\* session is the packet's; after an accepted call the Coordinator is idle
\* and exactly one End notification for the packet was forwarded downstream.
C6_PushPacketEnd ==
    op.name = "pushPacketEnd"
    => ( /\ Accepted <=> (WasIdle \/ prevStreamId = packet.treeId)
         /\ Failed <=> ~Accepted
         /\ Accepted => ( /\ Idle
                          /\ toConsumer = <<Forward("end", packet, 0, 0, 0)>> ) )

C6_Witness ==
    /\ op.name = "pushPacketEnd"
    /\ WasIdle
    /\ Accepted
    /\ Idle
    /\ Len(toConsumer) = 1

\* C7: pushPacket called while idle forwards exactly one packet downstream
\* and leaves the Coordinator idle; called while any session is open, its
\* own packet's included, it fails, forwards nothing and leaves the session
\* unchanged.
C7_AtomicPush ==
    op.name = "pushPacket"
    => IF WasIdle
       THEN /\ Accepted
            /\ toConsumer = <<Forward("packet", packet, 0, 0, 0)>>
            /\ Idle
       ELSE /\ Failed
            /\ toConsumer = <<>>
            /\ inProgressStreamId = prevStreamId

C7_Witness ==
    /\ op.name = "pushPacket"
    /\ prevStreamId = packet.treeId
    /\ Failed
    /\ inProgressStreamId = prevStreamId

\* C8: pullPacket called while idle makes exactly one pullPacket call on the
\* Provider, returns the packet obtained and leaves the Coordinator idle;
\* called while a session is open it fails without calling the Provider and
\* without changing the session.
C8_AtomicPull ==
    op.name = "pullPacket"
    => IF WasIdle
       THEN /\ Accepted
            /\ toProvider = <<Pull("pullPacket", 0, 0, 0)>>
            /\ returned \in Packets
            /\ returned = packet
            /\ Idle
       ELSE /\ Failed
            /\ toProvider = <<>>
            /\ returned = nullptr
            /\ inProgressStreamId = prevStreamId

C8_Witness ==
    /\ op.name = "pullPacket"
    /\ ~WasIdle
    /\ Failed
    /\ toProvider = <<>>
    /\ inProgressStreamId = prevStreamId

\* C9: pushPacketStart fails exactly when a session for another treeId is
\* open, and when accepted leaves the session open for the packet's treeId
\* and forwards one Start notification with the given rate; pullPacketStart
\* fails exactly when any session is open, and when accepted leaves the
\* session open for the treeId of the packet the Provider handed back.
C9_StartOfSession ==
    /\ op.name = "pushPacketStart"
       => ( /\ Failed <=> (~WasIdle /\ packet.treeId # prevStreamId)
            /\ Accepted <=> ~Failed
            /\ Accepted =>
                 ( /\ inProgressStreamId = packet.treeId
                   /\ toConsumer = <<Forward("start", packet, op.datarate, 0, 0)>> ) )
    /\ op.name = "pullPacketStart"
       => ( /\ Failed <=> ~WasIdle
            /\ Accepted <=> ~Failed
            /\ Accepted =>
                 ( /\ returned \in Packets
                   /\ toProvider = <<Pull("pullPacketStart", op.datarate, 0, 0)>>
                   /\ inProgressStreamId = returned.treeId ) )

C9_Witness ==
    /\ op.name = "pushPacketStart"
    /\ prevStreamId = packet.treeId
    /\ Accepted
    /\ inProgressStreamId = packet.treeId
    /\ Len(toConsumer) = 1

\* C10: handleCanPushPacketChanged notifies the Producer exactly once when
\* one is bound and nobody otherwise; handleCanPullPacketChanged does the
\* same with the Collector; neither calls the Provider, forwards to the
\* Consumer or changes inProgressStreamId.
C10_BackPressureRelay ==
    /\ op.name = "handleCanPushPacketChanged"
       => ( /\ Accepted
            /\ toProducer = IF producer THEN <<"handleCanPushPacketChanged">>
                                        ELSE <<>>
            /\ toCollector = <<>>
            /\ toProvider = <<>>
            /\ toConsumer = <<>>
            /\ inProgressStreamId = prevStreamId )
    /\ op.name = "handleCanPullPacketChanged"
       => ( /\ Accepted
            /\ toCollector = IF collector THEN <<"handleCanPullPacketChanged">>
                                          ELSE <<>>
            /\ toProducer = <<>>
            /\ toProvider = <<>>
            /\ toConsumer = <<>>
            /\ inProgressStreamId = prevStreamId )

C10_Witness ==
    /\ op.name = "handleCanPullPacketChanged"
    /\ collector
    /\ ~producer
    /\ ~WasIdle
    /\ toCollector = <<"handleCanPullPacketChanged">>
    /\ inProgressStreamId = prevStreamId

\* The complete packets among the notifications of one call: a whole packet
\* pushed at once, or the End that completes a streamed one.
CompletePackets(forwarded) ==
    LET IsComplete(n) == n.kind \in {"packet", "end"}
        done == SelectSeq(forwarded, IsComplete)
    IN  [i \in 1..Len(done) |-> done[i].packet]

\* C11: from an idle Coordinator, pushPacket(p) and pushPacketStart(p)
\* followed by pushPacketEnd(p) both hand the downstream the complete packet
\* p exactly once (the Start hands over no complete packet, the End and the
\* atomic push exactly p) and both leave the Coordinator idle.
C11_AtomicStreamingEquivalent ==
    /\ op.name = "pushPacketStart"
       => ( /\ Accepted
            /\ CompletePackets(toConsumer) = <<>> )
    /\ op.name \in {"pushPacket", "pushPacketEnd"}
       => ( /\ Accepted
            /\ Idle
            /\ CompletePackets(toConsumer) = <<packet>> )

C11_Witness ==
    /\ op.name = "pushPacketEnd"
    /\ prevStreamId = packet.treeId
    /\ Accepted
    /\ Idle
    /\ CompletePackets(toConsumer) = <<packet>>

\* C20: no operation, accepted or rejected, replaces an open session for a
\* treeId T by an open session for another treeId: the session id goes
\* from idle to T, stays T, or goes from T to idle.
C20_SessionIdTransitions ==
    (prevStreamId # NoStream /\ inProgressStreamId # NoStream)
    => inProgressStreamId = prevStreamId

C20_Witness ==
    /\ op.name = "pullPacketProgress"
    /\ prevStreamId \in TreeIds
    /\ Accepted
    /\ inProgressStreamId = prevStreamId

----------------------------------------------------------------------------
(* Properties of the PreemptingServer.  event names the last handler,      *)
(* streamedBefore and timerBefore are streamedPacket and timer on its      *)
(* entry, pulls / pushes / deleted what it did.                            *)

Streaming == streamedPacket # NoPacket

WasStreaming == streamedBefore # NoPacket

TimerPending == timer # NotScheduled

BackPressureEvent ==
    event \in {"handleCanPushPacketChanged", "handleCanPullPacketChanged"}

\* C12: between event handlers the completion timer is pending if and only
\* if the server is Streaming.
C12_TimerPendingIffStreaming ==
    TimerPending <=> Streaming

\* C13: handleCanPullPacketChanged arriving while Streaming makes one
\* pullPacketEnd call on the Provider, pushes that packet as one
\* pushPacketEnd to the Consumer, clears streamedPacket and leaves the timer
\* cancelled, so that it cannot fire for this transfer.
C13_Preemption ==
    (event = "handleCanPullPacketChanged" /\ WasStreaming)
    => ( /\ outcome = "ok"
         /\ Len(pulls) = 1
         /\ pulls[1].kind = "pullPacketEnd"
         /\ Len(pushes) = 1
         /\ pushes[1].kind = "pushPacketEnd"
         /\ pushes[1].packet = pulls[1].packet
         /\ ~Streaming
         /\ ~TimerPending )

C13_Witness ==
    /\ event = "handleCanPullPacketChanged"
    /\ WasStreaming
    /\ timerBefore > 0
    /\ ~Streaming
    /\ ~TimerPending
    /\ Len(pushes) = 1

\* C14 (as stated): handleCanPushPacketChanged arriving while Streaming
\* finalizes the transfer at once (pull-end, push-end, server Idle) and the
\* timer is no longer pending.
C14_PushChangePreempts ==
    (event = "handleCanPushPacketChanged" /\ WasStreaming)
    => ( /\ Len(pulls) = 1
         /\ pulls[1].kind = "pullPacketEnd"
         /\ Len(pushes) = 1
         /\ pushes[1].kind = "pushPacketEnd"
         /\ ~Streaming
         /\ ~TimerPending )

\* C14 (amended): handleCanPushPacketChanged arriving while Streaming does
\* nothing: no call on the Provider or the Consumer, the same packet is
\* still being streamed and the timer is still scheduled as it was.
C14_PushChangeIgnoredWhileStreaming ==
    (event = "handleCanPushPacketChanged" /\ WasStreaming)
    => ( /\ outcome = "ok"
         /\ pulls = <<>>
         /\ pushes = <<>>
         /\ deleted = <<>>
         /\ streamedPacket = streamedBefore
         /\ TimerPending
         /\ timer = timerBefore )

C14_Witness ==
    /\ event = "handleCanPushPacketChanged"
    /\ WasStreaming
    /\ canPullSomePacket
    /\ canPushSomePacket
    /\ streamedPacket = streamedBefore
    /\ timer = timerBefore
    /\ timer > 0

C16_StartTransition ==
    (BackPressureEvent /\ ~WasStreaming
        /\ canPullSomePacket /\ canPushSomePacket)
    => ( /\ outcome = "ok"
         /\ Len(pulls) = 1
         /\ pulls[1].kind = "pullPacketStart"
         /\ pulls[1].datarate = serverDatarate
         /\ streamedPacket = pulls[1].packet
         /\ Len(pushes) = 1
         /\ pushes[1].kind = "pushPacketStart"
         /\ pushes[1].datarate = serverDatarate
         /\ pushes[1].packet.id # streamedPacket.id
         /\ pushes[1].packet.totalLength = streamedPacket.totalLength
         /\ Streaming
         /\ TimerPending
         /\ timer * serverDatarate = streamedPacket.totalLength )

\* C17: the timer firing while Streaming makes one pullPacketEnd call,
\* deletes the packet held since the start, pushes the packet that call
\* returned as one pushPacketEnd and leaves the server Idle.
C17_NormalCompletion ==
    (event = "handleMessage" /\ WasStreaming)
    => ( /\ outcome = "ok"
         /\ Len(pulls) = 1
         /\ pulls[1].kind = "pullPacketEnd"
         /\ deleted = <<streamedBefore>>
         /\ Len(pushes) = 1
         /\ pushes[1].kind = "pushPacketEnd"
         /\ pushes[1].packet = pulls[1].packet
         /\ pushes[1].packet.id # streamedBefore.id
         /\ owner[pushes[1].packet.id] = "downstream"
         /\ ~Streaming )

C17_Witness ==
    /\ event = "handleMessage"
    /\ WasStreaming
    /\ timerBefore = 0
    /\ Len(pushes) = 1
    /\ pushes[1].kind = "pushPacketEnd"
    /\ ~Streaming

\* C18: a back-pressure notification arriving while the server is Idle and
\* canStartStreaming() is false leaves it Idle: nothing is pulled, nothing
\* is pushed and the timer is not scheduled by it.
C18_StaysIdleWhenNotEligible ==
    (BackPressureEvent /\ ~WasStreaming
        /\ ~(canPullSomePacket /\ canPushSomePacket))
    => ( /\ outcome = "ok"
         /\ ~Streaming
         /\ pulls = <<>>
         /\ pushes = <<>>
         /\ timer = timerBefore )

C18_Witness ==
    /\ event = "handleCanPushPacketChanged"
    /\ ~WasStreaming
    /\ ~canPullSomePacket
    /\ canPushSomePacket
    /\ ~Streaming
    /\ pulls = <<>>

\* C19: the server never deletes, forwards or dereferences a packet that it
\* has handed downstream or deleted, whatever handler its neighbours call
\* while startStreaming or endStreaming is inside a call to them.
C19_NoUseAfterHandOver ==
    misuse = {}

----------------------------------------------------------------------------
\* C21: over any sequence of timer firings and notifications, the starts and
\* ends the server issues are paired on each side: a pullPacketStart reaches
\* the Provider only when no earlier pullPacketStart is still without its
\* pullPacketEnd, a pushPacketStart reaches the Consumer only when no earlier
\* pushPacketStart is still without its pushPacketEnd, and no pullPacketEnd
\* or pushPacketEnd is issued without a preceding unmatched start.
C21_StartEndPairing ==
    unpaired = {}

----------------------------------------------------------------------------
\* C22: whenever the server is Idle and canStartStreaming() holds, also
\* right after a transfer finished by the timer or by preemption, the server
\* eventually becomes Streaming, given only that scheduled timer events are
\* delivered and without a further notification from a neighbour (the run
\* of the simulation ending is the one other way out).
C22_IdleEligibleLeadsToStreaming ==
    (streamedPacket = NoPacket /\ canPullSomePacket /\ canPushSomePacket
        /\ Alive)
    ~> (streamedPacket # NoPacket \/ ~Alive)

----------------------------------------------------------------------------
\* C23: handlePushPacketProcessed(p, success) and
\* handlePullPacketProcessed(p, success) close the open session only when it
\* is the session of p's treeId: a session open for another treeId is left
\* as it was, and an idle Coordinator stays idle.  The acknowledgment is
\* relayed exactly once, with p and the success flag, to the Producer
\* (respectively the Collector) when one is bound, and to nobody otherwise.
C23_ProcessedAcknowledgments ==
    /\ op.name = "handlePushPacketProcessed"
       => ( /\ Accepted
            /\ inProgressStreamId = IF prevStreamId = packet.treeId
                                    THEN NoStream
                                    ELSE prevStreamId
            /\ \E successful \in BOOLEAN :
                  toProducer = IF producer
                               THEN << <<"handlePushPacketProcessed", packet,
                                         successful>> >>
                               ELSE <<>>
            /\ toCollector = <<>>
            /\ toProvider = <<>>
            /\ toConsumer = <<>> )
    /\ op.name = "handlePullPacketProcessed"
       => ( /\ Accepted
            /\ inProgressStreamId = IF prevStreamId = packet.treeId
                                    THEN NoStream
                                    ELSE prevStreamId
            /\ \E successful \in BOOLEAN :
                  toCollector = IF collector
                                THEN << <<"handlePullPacketProcessed", packet,
                                          successful>> >>
                                ELSE <<>>
            /\ toProducer = <<>>
            /\ toProvider = <<>>
            /\ toConsumer = <<>> )

----------------------------------------------------------------------------
\* C24: the capability queries only relay.  canPushSomePacket and
\* canPushPacket return true when no Consumer is bound and the Consumer's
\* answer otherwise; canPullSomePacket returns false, and canPullPacket no
\* packet, when no Provider is bound and the Provider's answer otherwise.  A
\* query asks its neighbour once when it is bound, pushes and pulls nothing,
\* notifies nobody and leaves inProgressStreamId as it was, whether or not a
\* session is open.
C24_CapabilityQueriesRelay ==
    /\ op.name \in {"canPushSomePacket", "canPushPacket"}
       => ( /\ can = IF consumer THEN neighbourCan ELSE TRUE
            /\ Len(toConsumer) = IF consumer THEN 1 ELSE 0
            /\ \A i \in 1..Len(toConsumer) :
                  /\ toConsumer[i].kind = op.name
                  /\ toConsumer[i].packet = packet
            /\ toProvider = <<>> )
    /\ op.name = "canPullSomePacket"
       => ( /\ can = IF provider THEN neighbourCan ELSE FALSE
            /\ Len(toProvider) = IF provider THEN 1 ELSE 0
            /\ \A i \in 1..Len(toProvider) : toProvider[i].kind = op.name
            /\ toConsumer = <<>> )
    /\ op.name = "canPullPacket"
       => ( /\ returned = IF provider THEN neighbourPacket ELSE nullptr
            /\ Len(toProvider) = IF provider THEN 1 ELSE 0
            /\ \A i \in 1..Len(toProvider) : toProvider[i].kind = op.name
            /\ toConsumer = <<>> )
    /\ op.name \in {"canPushSomePacket", "canPushPacket",
                     "canPullSomePacket", "canPullPacket"}
       => ( /\ Accepted
            /\ inProgressStreamId = prevStreamId
            /\ toProducer = <<>>
            /\ toCollector = <<>> )

\* canPullSomePacket is asked without a Provider while a session is open.
C24_Witness ==
    /\ op.name = "canPullSomePacket"
    /\ ~provider
    /\ ~can
    /\ neighbourCan
    /\ ~Idle

====
